---- MODULE Spec2Model ----
(***************************************************************************)
(* Model of main.py: the replication orchestrator.  One sequential process *)
(* (main) runs against three external collaborators: the replication       *)
(* service reached through midclt, the operator who may create or remove   *)
(* the no_shutdown marker file, and the clock.  Time is a simulated clock: *)
(* it advances only inside time.sleep, by exactly the requested amount.    *)
(***************************************************************************)
EXTENDS Integers, Sequences, FiniteSets, TLC

VARIABLES
    pc,                 \* position of main()
    now,                \* the clock read by time.time()
    start,              \* main: start
    DISCORD_WEBHOOK_URL,\* configuration read at import time (line 39): "none" or "url"
    service,            \* replication service: the set of job ids now RUNNING
    marker,             \* whether the file no_shutdown exists
    replications,       \* main: the snapshot returned by the first query
    idx,                \* main: number of loop iterations entered (for replication in ...)
    elapsed,            \* main: elapsed
    perform_shutdown,   \* main: perform_shutdown
    discord_message,    \* main: discord_message (a record, or NoMessage)
    crash,              \* the exception that ended the run, "none" otherwise
    \* ---- observation (history) variables, never read by the program ----
    runCalls,           \* ids passed to start_replication, in call order
    lastCall,           \* outcome of the most recent job-service invocation
    waitPolls,          \* get_running_replications calls made by the current wait
    waitBusy,           \* how many of them returned a non-empty list
    waitSlept,          \* time slept by the current wait
    emptyPollSinceRun,  \* an empty poll was seen after the latest start_replication
    unfinished,         \* has the job of the latest successful start_replication
                        \* still to finish?  "yes" / "no"; "untracked" when the
                        \* behaviour does not follow triggered executions
    sample,             \* "none", or what os.path.exists saw: "present" / "absent"
    sampleTime,         \* clock value at the sample
    markerSince,        \* since when the marker is in place: "absent", "preexisting"
                        \* (before the run), "window" (created less than
                        \* MIN_EXECUTION_TIME after start) or "late"
    poolListed,         \* "unread", or whether `zpool list` named ZPOOL_NAME:
                        \* "listed" / "absent"
    notif,              \* what happened to the notification
    shutdownDone,       \* shutdown_system was called
    shutdownTime,       \* clock value when it was called
    \* ---- a function applied on its own ----
    arg,                \* the function and its arguments, NoArg inside a run
    ret                 \* what the call returned or raised, NoRet before it returns

vars == <<pc, now, start, DISCORD_WEBHOOK_URL, service, marker,
          replications, idx, elapsed, perform_shutdown, discord_message, crash,
          runCalls, lastCall, waitPolls, waitBusy, waitSlept, emptyPollSinceRun,
          unfinished, sample, sampleTime, markerSince, poolListed, notif,
          shutdownDone, shutdownTime, arg, ret>>

progVars == <<pc, now, start, replications, idx, elapsed, perform_shutdown,
              discord_message, crash, runCalls, lastCall, waitPolls, waitBusy,
              waitSlept, emptyPollSinceRun, sample, sampleTime, poolListed, notif,
              shutdownDone, shutdownTime>>

configVars == <<DISCORD_WEBHOOK_URL>>

callVars == <<arg, ret>>

----------------------------------------------------------------------------
(* Bounds of the model *)

MaxJobs == 2        \* job ids known to the replication service: 1..MaxJobs
MaxTime == 18       \* the clock is not advanced past this value
StartTime == 3      \* the clock value at which the run starts
MIN_EXECUTION_TIME == 10    \* the value configured for MIN_EXECUTION_TIME

(* Program constants *)

POLL_INTERVAL == 5  \* time.sleep(5)
ZPOOL_NAME == "tank"

JobIds == 1..MaxJobs

NoMessage == [kind |-> "none"]
NoCall == [op |-> "none", returncode |-> 0, wellformed |-> TRUE]
NoNotif == [attempted |-> FALSE, delivered |-> FALSE, trailer |-> FALSE]
NoArg == [fn |-> "none", seconds |-> 0, out |-> <<>>, name |-> ""]
NoRet == [raised |-> "", value |-> <<>>]

Max(a, b) == IF a >= b THEN a ELSE b
Min(a, b) == IF a <= b THEN a ELSE b

----------------------------------------------------------------------------
(* The replication service as seen through midclt *)

\* The outcomes of one subprocess.run of midclt: exit status, and whether stdout is JSON.
CallResults == [returncode : {0, 1}, wellformed : BOOLEAN]

\* All orderings of a finite set of job ids.
RECURSIVE Orderings(_)
Orderings(S) ==
    IF S = {} THEN {<<>>}
    ELSE UNION {{<<j>> \o rest : rest \in Orderings(S \ {j})} : j \in S}

JobState(svc, j) == IF j \in svc THEN "RUNNING" ELSE "FINISHED"

\* What replication.query can return while the jobs in svc are running: one record
\* per configured job, in an order the service chooses.  Every running job is
\* configured; which other jobs are configured may differ from one query to the
\* next (tasks are added and deleted by the administrator).
Listings(svc) ==
    {[k \in 1..Len(o) |-> [id |-> o[k], state |-> [state |-> JobState(svc, o[k])]]] :
        o \in UNION {Orderings(S) : S \in {T \in SUBSET JobIds : svc \subseteq T}}}

\* A check of the exit status alone.
QueryRaisesLax(result) == result.returncode # 0

\* query_replications raises on a non-zero exit status, and json.loads raises on
\* output that is not JSON.
QueryRaises(result) == result.returncode # 0 \/ ~result.wellformed

\* start_replication raises on a non-zero exit status only; stdout is never parsed.
StartRaises(result) == result.returncode # 0

\* A filter that looks at the first record of the query result only.
RunningFirst(listing) ==
    SelectSeq(SubSeq(listing, 1, Min(1, Len(listing))), LAMBDA r : r.state.state = "RUNNING")

\* get_running_replications: the filter over one query result.
Running(listing) == SelectSeq(listing, LAMBDA r : r.state.state = "RUNNING")

\* A loop condition that is off by one.
KeepWaitingMany(running) == Len(running) > 1

\* A loop condition that always holds.
KeepWaitingAlways(running) == Len(running) >= 0

\* A loop condition that never holds.
KeepWaitingNever(running) == Len(running) < 0

\* wait_for_running_replications: the loop condition.
KeepWaiting(running) == Len(running) > 0

\* A loop that skips the jobs the snapshot shows RUNNING.
LoopItemsIdle(snapshot) == SelectSeq(snapshot, LAMBDA r : r.state.state # "RUNNING")

\* main: the sequence the for loop iterates over.
LoopItems(snapshot) == snapshot

\* No floor sleep at all; and a floor sleep that ignores the time already spent.
FloorDelayNone(el, floor) == 0
FloorDelayAlways(el, floor) == floor

\* main: the argument of the floor sleep.
FloorDelay(el, floor) == Max(0, floor - el)

\* The clock reading taken for the elapsed time.
ElapsedTimestamp(t, s) == t

\* main: elapsed = time.time() - start
Elapsed(t, s) == t - s

\* A gate that probes the marker file again.
ShutdownGateRecheck(ps, exists) == ~exists

\* main: the condition guarding shutdown_system().
ShutdownGate(ps, exists) == ps

\* main: the condition guarding the trailer.
TrailerGate(ps, exists) == ps

\* A notifier that never delivers; and one that tries with no endpoint configured.
SkipDeliveryAlways(url) == TRUE
SkipDeliveryNever(url) == FALSE

\* send_discord_message: if DISCORD_WEBHOOK_URL is None: return
SkipDelivery(url) == url = "none"

\* A report of the time since start, read when the message is composed.
ReportedElapsedAtReport(el, t, s) == t - s

\* main: the duration written into the message is the variable elapsed of line 144.
ReportedElapsed(el, t, s) == el

\* A probe that consumes the file it finds.
NoShutdownConsumed(exists) == FALSE

\* os.path.exists('no_shutdown') only looks: the file is left as it was.
NoShutdownAfterProbe(exists) == exists

----------------------------------------------------------------------------
InitRun ==
    /\ pc = "query"
    /\ now = StartTime
    /\ start = now
    /\ DISCORD_WEBHOOK_URL \in {"none", "url"}
    /\ service \in SUBSET JobIds
    /\ marker \in BOOLEAN
    /\ replications = <<>>
    /\ idx = 0
    /\ elapsed = 0
    /\ perform_shutdown = FALSE
    /\ discord_message = NoMessage
    /\ crash = "none"
    /\ runCalls = <<>>
    /\ lastCall = NoCall
    /\ waitPolls = 0
    /\ waitBusy = 0
    /\ waitSlept = 0
    /\ emptyPollSinceRun = FALSE
    /\ sample = "none"
    /\ sampleTime = 0
    /\ markerSince = IF marker THEN "preexisting" ELSE "absent"
    /\ poolListed = "unread"
    /\ notif = NoNotif
    /\ shutdownDone = FALSE
    /\ shutdownTime = 0
    /\ arg = NoArg
    /\ ret = NoRet

\* The run as the other properties observe it: triggered executions are not followed.
Init == InitRun /\ unfinished = "untracked"

\* The same run, following the execution of each job that start_replication triggers.
InitAsync == InitRun /\ unfinished = "no"

----------------------------------------------------------------------------
(* get_zpool_usage: the output of `zpool list`, already split on whitespace *)

HeaderRow == <<"NAME", "SIZE", "FREE", "CAP", "HEALTH">>
ShortHeaderRow == <<"NAME", "SIZE", "FREE", "CAP">>
TankRow == <<"tank", "10T", "6T", "42%", "ONLINE">>
BackupRow == <<"backup", "4T", "1T", "75%", "DEGRADED">>

ZpoolOutputs ==
    { [headers |-> HeaderRow, pools |-> <<TankRow, BackupRow>>],
      [headers |-> HeaderRow, pools |-> <<BackupRow, TankRow>>],
      [headers |-> HeaderRow, pools |-> <<BackupRow>>],
      [headers |-> HeaderRow, pools |-> <<>>],
      [headers |-> ShortHeaderRow, pools |-> <<TankRow>>] }

\* The columns the report reads from the selected pool's record.
ReportFields == {"cap", "free", "size", "health"}

\* str.lower on the column names zpool prints.
Lower(h) ==
    CASE h = "NAME" -> "name"
      [] h = "SIZE" -> "size"
      [] h = "FREE" -> "free"
      [] h = "CAP" -> "cap"
      [] h = "HEALTH" -> "health"
      [] OTHER -> h

\* {header.lower(): value for header, value in zip(headers, values)}: zip stops at
\* the shorter of the two, and a later duplicate key overwrites an earlier one.
PoolData(headers, values) ==
    LET n == Min(Len(headers), Len(values))
        keys == {Lower(headers[k]) : k \in 1..n}
        last(key) == CHOOSE k \in 1..n :
                        /\ Lower(headers[k]) = key
                        /\ \A m \in 1..n : Lower(headers[m]) = key => m <= k
    IN  [key \in keys |-> values[last(key)]]

\* A lookup that answers a placeholder record for a pool the tool did not list.
get_zpool_usage_defaulting(out) ==
    LET rows == out.pools
        names == {rows[k][1] : k \in 1..Len(rows)}
        row(name) == CHOOSE k \in 1..Len(rows) : rows[k][1] = name
    IN  [name \in names \cup {ZPOOL_NAME} |->
            IF name \in names THEN PoolData(out.headers, rows[row(name)])
            ELSE [key \in ReportFields |-> "-"]]

\* A mapping that files the first row's record under every pool name.
get_zpool_usage_first_row(out) ==
    LET rows == out.pools
        names == {rows[k][1] : k \in 1..Len(rows)}
    IN  [name \in names |-> PoolData(out.headers, rows[1])]

\* pools_dict: pool name (first column) -> that row's record; a later row with the
\* same name overwrites an earlier one.
get_zpool_usage(out) ==
    LET rows == out.pools
        names == {rows[k][1] : k \in 1..Len(rows)}
        lastRow(name) == CHOOSE k \in 1..Len(rows) :
                            /\ rows[k][1] = name
                            /\ \A m \in 1..Len(rows) : rows[m][1] = name => m <= k
    IN  [name \in names |-> PoolData(out.headers, rows[lastRow(name)])]

----------------------------------------------------------------------------
(* format_time *)

Component(value, unit) == [value |-> value, unit |-> unit]
Separator(text) == [value |-> 0, unit |-> text]

RECURSIVE JoinComma(_)
JoinComma(cs) ==
    IF Len(cs) = 0 THEN <<>>
    ELSE IF Len(cs) = 1 THEN cs
    ELSE <<cs[1], Separator(", ")>> \o JoinComma(Tail(cs))

\* A formatter that writes all three components whatever their value.
time_components_all(seconds) ==
    <<Component(seconds \div 3600, "hours"),
      Component((seconds % 3600) \div 60, "minutes"),
      Component((seconds % 3600) % 60, "seconds")>>

\* format_time: divmod by 3600 and by 60, and the components that are appended.
time_components(seconds) ==
    LET hours == seconds \div 3600
        remainder == seconds % 3600
        minutes == remainder \div 60
        secs == remainder % 60
        h == IF hours > 0 THEN <<Component(hours, "hours")>> ELSE <<>>
        m == IF minutes > 0 THEN <<Component(minutes, "minutes")>> ELSE <<>>
        hm == h \o m
    IN  IF secs > 0 \/ hm = <<>> THEN hm \o <<Component(secs, "seconds")>> ELSE hm

format_time(seconds) ==
    LET cs == time_components(seconds)
    IN  IF Len(cs) > 1
        THEN JoinComma(SubSeq(cs, 1, Len(cs) - 1)) \o <<Separator(" and "), cs[Len(cs)]>>
        ELSE <<cs[1]>>

----------------------------------------------------------------------------
(* requests.post: what can happen to one outbound call *)

\* "ok": delivered, 2xx.  "rejected": the endpoint answers with an error status;
\* the response is never inspected, so the call returns normally.
\* "unreachable": the call raises before anything is delivered.
\* "lost_response": the request is delivered and the call raises afterwards.
PostOutcomes == {"ok", "rejected", "unreachable", "lost_response"}
PostRaises(outcome) == outcome \in {"unreachable", "lost_response"}
PostDelivers(outcome) == outcome \in {"ok", "lost_response"}

obsReport == <<sample, sampleTime, poolListed, notif, shutdownDone, shutdownTime>>
obsWait == <<waitPolls, waitBusy, waitSlept, emptyPollSinceRun>>
envVars == <<service, marker, markerSince, unfinished>>

----------------------------------------------------------------------------
(* main, step by step *)

Raise(exc) ==
    /\ pc' = "crashed"
    /\ crash' = exc

\* replications = query_replications()
QueryReplications ==
    /\ pc = "query"
    /\ \E result \in CallResults :
        /\ lastCall' = [op |-> "query", returncode |-> result.returncode,
                        wellformed |-> result.wellformed]
        /\ IF QueryRaises(result)
           THEN /\ Raise("ExternalToolError")
                /\ UNCHANGED replications
           ELSE /\ \E listing \in Listings(service) : replications' = listing
                /\ pc' = "loop"
                /\ UNCHANGED crash
    /\ UNCHANGED <<now, start, idx, elapsed, perform_shutdown, discord_message,
                   runCalls, obsWait, obsReport, envVars, configVars, callVars>>

\* for replication in replications: start_replication(replication['id'])
StartReplication ==
    /\ pc = "loop"
    /\ idx < Len(LoopItems(replications))
    /\ LET id == LoopItems(replications)[idx + 1].id IN
       \E result \in CallResults :
        /\ idx' = idx + 1
        /\ runCalls' = Append(runCalls, id)
        /\ lastCall' = [op |-> "run", returncode |-> result.returncode,
                        wellformed |-> result.wellformed]
        /\ waitPolls' = 0
        /\ waitBusy' = 0
        /\ waitSlept' = 0
        /\ emptyPollSinceRun' = FALSE
        /\ IF StartRaises(result)
           THEN /\ Raise("ExternalToolError")
                /\ UNCHANGED <<service, unfinished>>
           ELSE /\ pc' = "poll"
                /\ UNCHANGED crash
                /\ unfinished' = IF unfinished = "untracked" THEN unfinished ELSE "yes"
                \* replication.run is asynchronous: the job may or may not be
                \* RUNNING already when the call returns.
                /\ \/ UNCHANGED service
                   \/ /\ id \notin service
                      /\ service' = service \cup {id}
    /\ UNCHANGED <<now, start, replications, elapsed, perform_shutdown, discord_message,
                   obsReport, marker, markerSince, configVars, callVars>>

\* wait_for_running_replications: one evaluation of the loop condition
GetRunningReplications ==
    /\ pc = "poll"
    /\ \E result \in CallResults :
        /\ lastCall' = [op |-> "query", returncode |-> result.returncode,
                        wellformed |-> result.wellformed]
        /\ waitPolls' = waitPolls + 1
        /\ IF QueryRaises(result)
           THEN /\ Raise("ExternalToolError")
                /\ UNCHANGED <<waitBusy, emptyPollSinceRun>>
           ELSE \E listing \in Listings(service) :
                LET running == Running(listing) IN
                /\ waitBusy' = IF Len(running) > 0 THEN waitBusy + 1 ELSE waitBusy
                /\ emptyPollSinceRun' = (emptyPollSinceRun \/ Len(running) = 0)
                /\ pc' = IF KeepWaiting(running) THEN "sleep" ELSE "loop"
                /\ UNCHANGED crash
    /\ UNCHANGED <<now, start, replications, idx, elapsed, perform_shutdown,
                   discord_message, runCalls, waitSlept, obsReport, envVars, configVars, callVars>>

\* wait_for_running_replications: time.sleep(5)
WaitSleep ==
    /\ pc = "sleep"
    /\ now + POLL_INTERVAL <= MaxTime
    /\ now' = now + POLL_INTERVAL
    /\ waitSlept' = waitSlept + POLL_INTERVAL
    /\ pc' = "poll"
    /\ UNCHANGED <<start, replications, idx, elapsed, perform_shutdown, discord_message,
                   crash, runCalls, lastCall, waitPolls, waitBusy, emptyPollSinceRun,
                   obsReport, envVars, configVars, callVars>>

\* elapsed = time.time() - start, once the for loop is exhausted
MeasureElapsed ==
    /\ pc = "loop"
    /\ idx >= Len(LoopItems(replications))
    /\ elapsed' = Elapsed(now, start)
    /\ pc' = "floor"
    /\ UNCHANGED <<now, start, replications, idx, perform_shutdown, discord_message,
                   crash, runCalls, lastCall, obsWait, obsReport, envVars, configVars, callVars>>

\* time.sleep(max(0.0, MIN_EXECUTION_TIME - elapsed))
FloorSleep ==
    /\ pc = "floor"
    /\ now' = now + FloorDelay(elapsed, MIN_EXECUTION_TIME)
    /\ pc' = "sample"
    /\ UNCHANGED <<start, replications, idx, elapsed, perform_shutdown, discord_message,
                   crash, runCalls, lastCall, obsWait, obsReport, envVars, configVars, callVars>>

\* perform_shutdown = not os.path.exists('no_shutdown')
SampleNoShutdown ==
    /\ pc = "sample"
    /\ perform_shutdown' = ~marker
    /\ marker' = NoShutdownAfterProbe(marker)
    /\ sample' = IF marker THEN "present" ELSE "absent"
    /\ sampleTime' = now
    /\ pc' = "report"
    /\ UNCHANGED <<now, start, replications, idx, elapsed, discord_message, crash,
                   runCalls, lastCall, obsWait, poolListed, notif, shutdownDone,
                   shutdownTime, service, markerSince, unfinished, configVars, callVars>>

\* pool_usage = get_zpool_usage()[ZPOOL_NAME]; discord_message = ...
ComposeReport ==
    /\ pc = "report"
    /\ \E out \in ZpoolOutputs :
        LET pools_dict == get_zpool_usage(out) IN
        /\ poolListed' = IF \E k \in 1..Len(out.pools) : out.pools[k][1] = ZPOOL_NAME
                         THEN "listed" ELSE "absent"
        /\ IF ZPOOL_NAME \notin DOMAIN pools_dict
           \/ ~(ReportFields \subseteq DOMAIN pools_dict[ZPOOL_NAME])
           THEN /\ Raise("KeyError")
                /\ UNCHANGED discord_message
           ELSE LET pool_usage == pools_dict[ZPOOL_NAME] IN
             /\ discord_message' =
                    [kind |-> "report",
                     count |-> Len(replications),
                     elapsed |-> format_time(ReportedElapsed(elapsed, now, start)),
                     cap |-> pool_usage["cap"],
                     free |-> pool_usage["free"],
                     size |-> pool_usage["size"],
                     health |-> pool_usage["health"],
                     trailer |-> TrailerGate(perform_shutdown, marker)]
             /\ pc' = "send"
             /\ UNCHANGED crash
    /\ UNCHANGED <<now, start, replications, idx, elapsed, perform_shutdown,
                   runCalls, lastCall, obsWait, sample, sampleTime, notif,
                   shutdownDone, shutdownTime, envVars, configVars, callVars>>

\* send_discord_message(discord_message)
SendDiscordMessage ==
    /\ pc = "send"
    /\ IF SkipDelivery(DISCORD_WEBHOOK_URL)
       THEN /\ pc' = "gate"
            /\ UNCHANGED <<notif, crash>>
       ELSE \E outcome \in PostOutcomes :
            /\ notif' = [attempted |-> TRUE,
                         delivered |-> PostDelivers(outcome),
                         trailer |-> discord_message.trailer]
            /\ IF PostRaises(outcome)
               THEN Raise("RequestException")
               ELSE /\ pc' = "gate"
                    /\ UNCHANGED crash
    /\ UNCHANGED <<now, start, replications, idx, elapsed, perform_shutdown,
                   discord_message, runCalls, lastCall, obsWait, sample, sampleTime,
                   poolListed, shutdownDone, shutdownTime, envVars, configVars, callVars>>

\* if perform_shutdown: shutdown_system()
ShutdownOrNot ==
    /\ pc = "gate"
    /\ IF ShutdownGate(perform_shutdown, marker)
       THEN /\ shutdownDone' = TRUE
            /\ shutdownTime' = now
       ELSE UNCHANGED <<shutdownDone, shutdownTime>>
    /\ pc' = "done"
    /\ UNCHANGED <<now, start, replications, idx, elapsed, perform_shutdown,
                   discord_message, crash, runCalls, lastCall, obsWait, sample,
                   sampleTime, poolListed, notif, envVars, configVars, callVars>>

----------------------------------------------------------------------------
(* The environment, while the run is in progress *)

Ended == pc \in {"done", "crashed"}

OperatorCreatesMarker ==
    /\ ~Ended
    /\ ~marker
    /\ marker' = TRUE
    /\ markerSince' = IF now < start + MIN_EXECUTION_TIME THEN "window" ELSE "late"
    /\ UNCHANGED <<progVars, service, unfinished, configVars, callVars>>

OperatorRemovesMarker ==
    /\ ~Ended
    /\ marker
    /\ marker' = FALSE
    /\ markerSince' = "absent"
    /\ UNCHANGED <<progVars, service, unfinished, configVars, callVars>>

Polling == pc \in {"query", "loop", "poll", "sleep"}

\* A job starts running: started by the service's own schedule, or a triggered run
\* beginning some time after replication.run returned.  (Once main has made its last
\* query the service is no longer observed.)
JobStarts ==
    /\ Polling
    /\ \E j \in JobIds \ service : service' = service \cup {j}
    /\ UNCHANGED <<progVars, marker, markerSince, unfinished, configVars, callVars>>

\* Job j, which is running, finishes.
JobFinish(j) ==
    /\ Polling
    /\ j \in service
    /\ service' = service \ {j}
    /\ unfinished' = IF unfinished = "yes" /\ j = runCalls[Len(runCalls)]
                      THEN "no" ELSE unfinished
    /\ UNCHANGED <<progVars, marker, markerSince, configVars, callVars>>

JobFinishes == \E j \in JobIds : JobFinish(j)

Next ==
    \/ QueryReplications
    \/ StartReplication
    \/ GetRunningReplications
    \/ WaitSleep
    \/ MeasureElapsed
    \/ FloorSleep
    \/ SampleNoShutdown
    \/ ComposeReport
    \/ SendDiscordMessage
    \/ ShutdownOrNot
    \/ OperatorCreatesMarker
    \/ OperatorRemovesMarker
    \/ JobStarts
    \/ JobFinishes

Spec == Init /\ [][Next]_vars

SpecAsync == InitAsync /\ [][Next]_vars

----------------------------------------------------------------------------
(* The run without a time horizon: a wait that goes on past MaxTime keeps polling
   and sleeping; its clock and its poll counters are no longer recorded. *)

PastHorizon == now + POLL_INTERVAL > MaxTime

\* wait_for_running_replications: one evaluation of the loop condition, past MaxTime
GetRunningReplicationsLate ==
    /\ pc = "poll"
    /\ PastHorizon
    /\ \E result \in CallResults :
        /\ lastCall' = [op |-> "query", returncode |-> result.returncode,
                        wellformed |-> result.wellformed]
        /\ IF QueryRaises(result)
           THEN /\ Raise("ExternalToolError")
                /\ UNCHANGED emptyPollSinceRun
           ELSE \E listing \in Listings(service) :
                LET running == Running(listing) IN
                /\ emptyPollSinceRun' = (emptyPollSinceRun \/ Len(running) = 0)
                /\ pc' = IF KeepWaiting(running) THEN "sleep" ELSE "loop"
                /\ UNCHANGED crash
    /\ UNCHANGED <<now, start, replications, idx, elapsed, perform_shutdown,
                   discord_message, runCalls, waitPolls, waitBusy, waitSlept,
                   obsReport, envVars, configVars, callVars>>

\* wait_for_running_replications: time.sleep(5), past MaxTime
WaitSleepLate ==
    /\ pc = "sleep"
    /\ PastHorizon
    /\ pc' = "poll"
    /\ UNCHANGED <<now, start, replications, idx, elapsed, perform_shutdown,
                   discord_message, crash, runCalls, lastCall, obsWait, obsReport,
                   envVars, configVars, callVars>>

\* The steps of main: the interpreter always takes the next one.
MainStep ==
    \/ QueryReplications
    \/ StartReplication
    \/ ~PastHorizon /\ GetRunningReplications
    \/ GetRunningReplicationsLate
    \/ WaitSleep
    \/ WaitSleepLate
    \/ MeasureElapsed
    \/ FloorSleep
    \/ SampleNoShutdown
    \/ ComposeReport
    \/ SendDiscordMessage
    \/ ShutdownOrNot

NextLive ==
    \/ MainStep
    \/ OperatorCreatesMarker
    \/ OperatorRemovesMarker
    \/ JobStarts
    \/ JobFinishes

SpecLive == Init /\ [][NextLive]_vars /\ WF_vars(MainStep)

----------------------------------------------------------------------------
(* format_time and the pool lookup applied on their own, to arguments that a run
   within MaxTime does not produce *)

MaxSeconds == 7325      \* format_time is applied to 0..MaxSeconds

PoolNames == {"tank", "backup", "scratch"}

FormatArgs ==
    {[fn |-> "format_time", seconds |-> s, out |-> <<>>, name |-> ""] :
        s \in 0..MaxSeconds}

LookupArgs ==
    {[fn |-> "get_zpool_usage", seconds |-> 0, out |-> o, name |-> n] :
        o \in ZpoolOutputs, n \in PoolNames}

InitCall ==
    /\ pc = "call"
    /\ arg \in FormatArgs \cup LookupArgs
    /\ ret = NoRet
    /\ now = StartTime
    /\ start = now
    /\ DISCORD_WEBHOOK_URL = "none"
    /\ service = {}
    /\ marker = FALSE
    /\ replications = <<>>
    /\ idx = 0
    /\ elapsed = 0
    /\ perform_shutdown = FALSE
    /\ discord_message = NoMessage
    /\ crash = "none"
    /\ runCalls = <<>>
    /\ lastCall = NoCall
    /\ waitPolls = 0
    /\ waitBusy = 0
    /\ waitSlept = 0
    /\ emptyPollSinceRun = FALSE
    /\ unfinished = "untracked"
    /\ sample = "none"
    /\ sampleTime = 0
    /\ markerSince = "absent"
    /\ poolListed = "unread"
    /\ notif = NoNotif
    /\ shutdownDone = FALSE
    /\ shutdownTime = 0

\* format_time(seconds)
CallFormatTime ==
    /\ pc = "call"
    /\ arg.fn = "format_time"
    /\ ret' = [raised |-> "", value |-> format_time(arg.seconds)]
    /\ pc' = "returned"
    /\ UNCHANGED <<arg, now, start, replications, idx, elapsed, perform_shutdown,
                   discord_message, crash, runCalls, lastCall, obsWait, obsReport,
                   envVars, configVars>>

\* get_zpool_usage()[name]
CallPoolLookup ==
    /\ pc = "call"
    /\ arg.fn = "get_zpool_usage"
    /\ LET pools_dict == get_zpool_usage(arg.out) IN
       ret' = IF arg.name \in DOMAIN pools_dict
              THEN [raised |-> "", value |-> pools_dict[arg.name]]
              ELSE [raised |-> "KeyError", value |-> <<>>]
    /\ pc' = "returned"
    /\ UNCHANGED <<arg, now, start, replications, idx, elapsed, perform_shutdown,
                   discord_message, crash, runCalls, lastCall, obsWait, obsReport,
                   envVars, configVars>>

NextCall ==
    \/ CallFormatTime
    \/ CallPoolLookup

SpecCall == InitCall /\ [][NextCall]_vars

----------------------------------------------------------------------------
(* Properties *)

SnapshotIds == [k \in 1..Len(replications) |-> replications[k].id]

\* The for loop is exhausted: main is at or past `elapsed = time.time() - start`.
PastLoop == pc \in {"floor", "sample"} \/ sample # "none"

\* C1 (as stated): in every run that has ended, shutdown_system was called if and
\* only if the marker was absent at the one point where its existence is sampled.
C1_ShutdownIffAbsentAtSample ==
    Ended => (shutdownDone <=> sample = "absent")

\* C1 (amended): shutdown_system is called only if the marker was absent at the
\* one sample; and in every run that has ended it was called if and only if the
\* marker was absent at the sample and nothing after the sample raised (neither
\* the pool lookup nor the notification call).
C1_ShutdownIffAbsentAndNoError ==
    /\ shutdownDone => sample = "absent"
    /\ Ended => (shutdownDone <=> (sample = "absent" /\ crash = "none"))

\* A run that shut down although the operator created the marker after the sample.
C1_Witness ==
    pc = "done" /\ shutdownDone /\ sample = "absent" /\ marker

\* C2: shutdown never happens less than MIN_EXECUTION_TIME after start; the marker
\* is sampled only after that floor has elapsed, so a marker created less than
\* MIN_EXECUTION_TIME after start (or already there at start) and left in place is
\* seen by the sample.
C2_FloorBeforeSampleAndShutdown ==
    /\ shutdownDone => shutdownTime - start >= MIN_EXECUTION_TIME
    /\ sample # "none" => sampleTime - start >= MIN_EXECUTION_TIME
    /\ (sample # "none" /\ markerSince \in {"preexisting", "window"}) => sample = "present"

\* A run without jobs in which the operator created the marker inside the window
\* and the sample saw it.
C2_Witness ==
    /\ sample = "present"
    /\ markerSince = "window"
    /\ replications = <<>>
    /\ sampleTime = start + MIN_EXECUTION_TIME

\* C3: the start_replication calls are the jobs of the first query's snapshot, in
\* the snapshot's order, each once: at every moment the calls made so far are a
\* prefix of the snapshot's ids, and once the loop is exhausted they are all of
\* them; no id is called twice.
C3_RunCallsAreSnapshot ==
    /\ Len(runCalls) <= Len(replications)
    /\ runCalls = SubSeq(SnapshotIds, 1, Len(runCalls))
    /\ PastLoop => runCalls = SnapshotIds
    /\ \A a, b \in 1..Len(runCalls) : runCalls[a] = runCalls[b] => a = b

\* A finished run over two jobs that the service listed in descending id order,
\* the first of them RUNNING in the snapshot, while the service now runs other jobs.
C3_Witness ==
    /\ pc = "done"
    /\ Len(runCalls) = 2
    /\ runCalls[1] > runCalls[2]
    /\ replications[1].state.state = "RUNNING"

\* C4: a start_replication call that is not the first, and the marker sample of a
\* run that triggered a job, happen only after a poll made since the previous
\* start_replication returned an empty list; the wait is left only on such a poll.
C4_EmptyPollBeforeProceeding ==
    [][ /\ (runCalls' # runCalls /\ runCalls # <<>>) => emptyPollSinceRun
        /\ (sample = "none" /\ sample' # "none" /\ runCalls # <<>>) => emptyPollSinceRun
        /\ (pc = "poll" /\ pc' = "loop") => emptyPollSinceRun' ]_vars

\* The second job is being triggered after a wait that saw running jobs first.
C4_Witness ==
    /\ Len(runCalls) = 2
    /\ pc = "poll"
    /\ waitPolls = 0
    /\ now > start

\* The wait of the latest start_replication has returned.
WaitReturned == runCalls # <<>> /\ (pc = "loop" \/ PastLoop)

\* C5 (as stated): when the running list was non-empty N times and then empty, the
\* wait has made exactly N polls, and slept 5 units N times.
C5_ExactlyNPolls ==
    WaitReturned => (waitPolls = waitBusy /\ waitSlept = POLL_INTERVAL * waitBusy)

\* C5 (amended): when the running list was non-empty N times and then empty, the
\* wait has made exactly N + 1 polls (the N non-empty ones and the empty one that
\* ends it) and slept the 5-unit interval exactly N times, once after each
\* non-empty poll.
C5_NPlusOnePollsNSleeps ==
    /\ WaitReturned => (waitPolls = waitBusy + 1 /\ waitSlept = POLL_INTERVAL * waitBusy)
    /\ pc = "sleep" => (waitPolls = waitBusy /\ waitSlept = POLL_INTERVAL * (waitBusy - 1))
    /\ pc = "poll" => (waitPolls = waitBusy /\ waitSlept = POLL_INTERVAL * waitBusy)

\* A wait that returned after two non-empty polls.
C5_Witness ==
    pc = "loop" /\ waitBusy = 2 /\ waitPolls = 3 /\ waitSlept = 2 * POLL_INTERVAL

\* C6: the time from start to the marker sample (and the report) is
\* MIN_EXECUTION_TIME when the work took less than that, and the work time itself
\* otherwise: the added wait is exactly max(0, MIN_EXECUTION_TIME - elapsed).
C6_FloorIsExact ==
    /\ pc = "sample" => now - start = Max(elapsed, MIN_EXECUTION_TIME)
    /\ sample # "none" =>
        /\ elapsed < MIN_EXECUTION_TIME => sampleTime - start = MIN_EXECUTION_TIME
        /\ elapsed >= MIN_EXECUTION_TIME => sampleTime - start = elapsed

\* A run whose work took longer than the floor and was sampled with no added wait.
C6_Witness ==
    /\ sample # "none"
    /\ elapsed > MIN_EXECUTION_TIME
    /\ sampleTime = start + elapsed

\* C7: in a run that has ended, the delivered notification carries the shutdown
\* trailer if and only if shutdown_system was called.
C7_TrailerIffShutdown ==
    (Ended /\ notif.delivered) => (notif.trailer <=> shutdownDone)

\* C8: when the marker was absent at the sample and the pool lookup succeeded,
\* the run ends with shutdown_system called, whether or not the delivery worked.
C8_DeliveryFailureDoesNotBlockShutdown ==
    (Ended /\ sample = "absent" /\ discord_message # NoMessage) => shutdownDone

\* What the spec calls a failed job-service invocation: a non-zero exit status or
\* output that is not well-formed, for a query and for a run alike.
SpecFailed(call) ==
    call.op # "none" /\ (call.returncode # 0 \/ ~call.wellformed)

\* What makes an invocation fail: a query that exits non-zero or prints output
\* that is not well-formed, and a run that exits non-zero.
CodeFailed(call) ==
    \/ call.op = "query" /\ (call.returncode # 0 \/ ~call.wellformed)
    \/ call.op = "run" /\ call.returncode # 0

\* No job-service call, notification or shutdown happens in this step.
NothingFurther == UNCHANGED <<runCalls, waitPolls, lastCall, notif, shutdownDone>>

C10_MissingPoolIsFatalAfterJobs ==
    poolListed = "absent" =>
        /\ pc = "crashed" /\ crash = "KeyError"
        /\ runCalls = SnapshotIds
        /\ runCalls # <<>> => emptyPollSinceRun
        /\ sample # "none" /\ sampleTime - start >= MIN_EXECUTION_TIME
        /\ ~notif.attempted /\ ~notif.delivered
        /\ ~shutdownDone

\* A run over two jobs, sampled with the marker absent, ended by the lookup error.
C10_Witness ==
    /\ poolListed = "absent"
    /\ crash = "KeyError"
    /\ sample = "absent"
    /\ Len(runCalls) = 2

\* The job-service calls made so far.
JobServiceCalls == <<runCalls, waitPolls, lastCall>>

\* C11: the events of a run come in this order: every start_replication with its
\* wait, the floor wait, the one marker sample, the pool query, one notification
\* (exactly one in a run that ends without error with an endpoint configured, none
\* without an endpoint), at most one shutdown_system; and nothing follows it.
C11_EventOrder ==
    [][ /\ sample' # "none" =>
            /\ runCalls' = SnapshotIds'
            /\ runCalls' # <<>> => emptyPollSinceRun'
            /\ sampleTime' - start' >= MIN_EXECUTION_TIME
        /\ sample # "none" => (sample' = sample /\ UNCHANGED JobServiceCalls)
        /\ poolListed' # "unread" => sample' # "none"
        /\ poolListed # "unread" => poolListed' = poolListed
        /\ notif'.attempted => poolListed' = "listed"
        /\ notif.attempted => notif' = notif
        /\ shutdownDone' =>
            /\ poolListed' = "listed"
            /\ notif'.attempted <=> DISCORD_WEBHOOK_URL # "none"
        /\ pc' = "done" => (notif'.attempted <=> DISCORD_WEBHOOK_URL # "none")
        /\ shutdownDone => UNCHANGED <<progVars>> ]_vars

\* A finished run over two jobs that notified and then shut down.
C11_Witness ==
    /\ pc = "done"
    /\ Len(runCalls) = 2
    /\ notif.delivered
    /\ shutdownDone

\* C12: with no endpoint configured the notifier does nothing: no delivery is
\* attempted and no notification error ends the run, and the run goes on to the
\* gate, where it shuts down exactly when the marker was absent at the sample.
C12_NoEndpointIsSilentNoOp ==
    DISCORD_WEBHOOK_URL = "none" =>
        /\ ~notif.attempted /\ ~notif.delivered
        /\ crash # "RequestException"
        /\ (discord_message # NoMessage /\ pc # "send") => pc \in {"gate", "done"}
        /\ pc = "done" => (shutdownDone <=> sample = "absent")

\* A run without endpoint that composed its report and shut down.
C12_Witness ==
    /\ DISCORD_WEBHOOK_URL = "none"
    /\ discord_message # NoMessage
    /\ pc = "done"
    /\ shutdownDone

\* No call of the run raises.
NoCallFails == [](pc # "crashed")

\* The run reaches the marker sample and ends, shut down if the marker was absent.
Terminates == <>(pc = "done" /\ sample # "none" /\ (sample = "absent" => shutdownDone))

\* While a job stays RUNNING for ever, a run that is waiting keeps waiting: it never
\* samples, notifies or shuts down.
NoTimeout ==
    \A j \in JobIds :
        []((pc \in {"poll", "sleep"} /\ [](j \in service))
            => [](sample = "none" /\ ~notif.attempted /\ ~shutdownDone))

\* C13 as stated: if no call fails and every job that enters RUNNING eventually
\* leaves RUNNING, the run reaches the sample and terminates (with shutdown when the
\* marker is absent); and there is no timeout.
C13_TerminatesWhenEachJobLeaves ==
    /\ (NoCallFails /\ \A j \in JobIds : (j \in service) ~> (j \notin service))
            => Terminates
    /\ NoTimeout

\* C13: if no call fails and from some moment on no job is RUNNING, the run reaches
\* the sample and terminates (with shutdown when the marker is absent); and there is
\* no timeout: while a job stays RUNNING for ever the waiting run keeps polling.
C13_TerminatesOnceNoJobRuns ==
    /\ (NoCallFails /\ <>[](service = {})) => Terminates
    /\ NoTimeout

\* A run that found a job RUNNING at a poll, waited it out and shut down.
C13_Witness ==
    /\ pc = "done"
    /\ waitBusy > 0
    /\ service = {}
    /\ shutdownDone

\* C14: start_replication is not called for the next job while the job triggered by
\* the previous start_replication of this run has not finished: at most one
\* triggered job is unfinished at any time.
C14_NoConcurrentExecution ==
    [][runCalls' # runCalls => unfinished # "yes"]_vars

\* The ids passed to start_replication so far.
Triggered == {runCalls[k] : k \in 1..Len(runCalls)}

\* C15: the wait after start_replication(j) goes on exactly as long as a poll finds
\* some job RUNNING, whichever job that is (j, another job of the run, or one the run
\* never triggered), and is left at the first poll that finds none, whatever has
\* become of j.
C15_WaitIsGlobal ==
    [][(pc = "poll" /\ pc' \in {"sleep", "loop"})
         => /\ (pc' = "sleep") <=> (service # {})
            /\ (pc' = "loop") <=> (service = {})
            /\ emptyPollSinceRun' <=> (emptyPollSinceRun \/ service = {})]_vars

\* The run sleeps in the wait of its first job because of a job it never triggered;
\* the job it triggered is not RUNNING.
C15_Witness ==
    /\ pc = "sleep"
    /\ Len(runCalls) = 1
    /\ service # {}
    /\ service \cap Triggered = {}

\* C16: no step of the run creates, changes or deletes no_shutdown: only the
\* operator's steps change whether it exists, so at every moment, the end of the run
\* included, it exists exactly if the operator last left it in place.
C16_MarkerIsOnlyRead ==
    /\ [][progVars' # progVars => marker' = marker]_vars
    /\ [](marker <=> markerSince # "absent")

\* A finished run that found the marker it started with, and left it in place.
C16_Witness ==
    /\ pc = "done"
    /\ sample = "present"
    /\ marker
    /\ markerSince = "preexisting"

\* The components of a formatted duration, without the separators between them.
Emitted(text) == SelectSeq(text, LAMBDA c : c.unit \in {"hours", "minutes", "seconds"})

UnitRank(unit) == CASE unit = "hours" -> 1 [] unit = "minutes" -> 2 [] unit = "seconds" -> 3
UnitSeconds(unit) == CASE unit = "hours" -> 3600 [] unit = "minutes" -> 60 [] unit = "seconds" -> 1

RECURSIVE TotalSeconds(_)
TotalSeconds(cs) ==
    IF cs = <<>> THEN 0
    ELSE cs[1].value * UnitSeconds(cs[1].unit) + TotalSeconds(Tail(cs))

\* C17: for every whole number of seconds in 0..MaxSeconds the text of format_time
\* is not empty; its components come in the order hours, minutes, seconds, each at
\* most once and each within its range; a component is present exactly if its value
\* is not zero, except that 0 is written as the seconds component alone; and
\* hours*3600 + minutes*60 + seconds of the components is the input.
C17_FormatTime ==
    (pc = "returned" /\ arg.fn = "format_time") =>
        LET cs == Emitted(ret.value) IN
        /\ ret.raised = ""
        /\ Len(ret.value) > 0
        /\ Len(cs) > 0
        /\ Len(ret.value) = 2 * Len(cs) - 1
        /\ \A i, k \in 1..Len(cs) : i < k => UnitRank(cs[i].unit) < UnitRank(cs[k].unit)
        /\ \A i \in 1..Len(cs) :
              /\ cs[i].value > 0 \/ arg.seconds = 0
              /\ cs[i].unit \in {"minutes", "seconds"} => cs[i].value < 60
        /\ arg.seconds = 0 => cs = <<Component(0, "seconds")>>
        /\ TotalSeconds(cs) = arg.seconds

\* 2 hours, 2 minutes and 5 seconds, formatted with all three components.
C17_Witness ==
    /\ pc = "returned"
    /\ arg.fn = "format_time"
    /\ arg.seconds = MaxSeconds
    /\ Len(Emitted(ret.value)) = 3

\* The rows of a `zpool list` output whose first column is name.
RowsNamed(out, name) == {k \in 1..Len(out.pools) : out.pools[k][1] = name}

\* C18: get_zpool_usage()[name] raises KeyError exactly if no row of the output has
\* name in its first column; otherwise it is a record whose keys are the lower-cased
\* column names and whose values are, column by column, those of the row of that
\* pool and of no other row.
C18_PoolLookup ==
    (pc = "returned" /\ arg.fn = "get_zpool_usage") =>
        LET out == arg.out
            rows == RowsNamed(out, arg.name)
        IN
        /\ ret.raised = "KeyError" <=> rows = {}
        /\ ret.raised \in {"", "KeyError"}
        /\ rows # {} =>
             \E k \in rows :
                /\ DOMAIN ret.value = {Lower(out.headers[c]) : c \in 1..Len(out.headers)}
                /\ DOMAIN ret.value \subseteq {"name", "size", "free", "cap", "health"}
                /\ \A c \in 1..Len(out.headers) :
                      ret.value[Lower(out.headers[c])] = out.pools[k][c]
        /\ (arg.name = "backup" /\ rows # {}) =>
             ret.value = [name |-> "backup", size |-> "4T", free |-> "1T",
                          cap |-> "75%", health |-> "DEGRADED"]

\* The lookup of "backup" in an output that lists tank first and backup second.
C18_Witness ==
    /\ pc = "returned"
    /\ arg.fn = "get_zpool_usage"
    /\ arg.name = "backup"
    /\ arg.out.pools = <<TankRow, BackupRow>>
    /\ ret.raised = ""

\* The lookup of a pool that the output does not list.
C18_WitnessUnlisted ==
    /\ pc = "returned"
    /\ arg.fn = "get_zpool_usage"
    /\ arg.name = "scratch"
    /\ ret.raised = "KeyError"

\* C19: elapsed is the time from start to the end of the last wait, taken before the
\* floor sleep, and it is what the report shows: the sample, the report and the
\* notification come MIN_EXECUTION_TIME or more after start, while the duration in
\* the report leaves the floor sleep out and is below MIN_EXECUTION_TIME whenever
\* the work took less.
C19_ReportedElapsedIsWorkTime ==
    /\ pc = "floor" => elapsed = now - start
    /\ sample # "none" =>
         /\ sampleTime - start = Max(elapsed, MIN_EXECUTION_TIME)
         /\ sampleTime = now
    /\ discord_message # NoMessage =>
         /\ discord_message.elapsed = format_time(elapsed)
         /\ now - start >= MIN_EXECUTION_TIME
         /\ elapsed < MIN_EXECUTION_TIME =>
                /\ TotalSeconds(Emitted(discord_message.elapsed)) < MIN_EXECUTION_TIME
                /\ discord_message.elapsed # format_time(now - start)

\* A notification sent for a run whose work took one poll interval, less than the
\* floor.
C19_Witness ==
    /\ notif.attempted
    /\ Len(runCalls) > 0
    /\ elapsed = POLL_INTERVAL
    /\ elapsed < MIN_EXECUTION_TIME
    /\ discord_message.elapsed = format_time(POLL_INTERVAL)

\* The first query returned normally, with an empty list.
QueryReturnedEmpty ==
    /\ replications = <<>>
    /\ lastCall.op = "query"
    /\ ~QueryRaises(lastCall)

\* What a run over an empty list does before its pool query: no start_replication,
\* no poll, the whole floor slept, then the sample.
EmptyRunUpToSample ==
    /\ runCalls = <<>>
    /\ waitPolls = 0
    /\ pc \notin {"poll", "sleep"}
    /\ pc = "floor" => elapsed = 0
    /\ pc = "sample" => now = start + MIN_EXECUTION_TIME
    /\ pc \in {"report", "send", "gate", "done"} => sample # "none"
    /\ sample # "none" => sampleTime = start + MIN_EXECUTION_TIME
    /\ discord_message # NoMessage => discord_message.count = 0

\* C20 as stated: a run whose first query returns an empty list calls no
\* start_replication and polls nothing, sleeps the whole floor, samples the marker,
\* reports 0 jobs and, the marker being absent, ends shut down.
C20_EmptyRunShutsDownIfAbsent ==
    QueryReturnedEmpty =>
        /\ EmptyRunUpToSample
        /\ Ended => sample # "none" /\ discord_message # NoMessage
        /\ (Ended /\ sample = "absent") => shutdownDone

\* C20: a run whose first query returns an empty list calls no start_replication
\* and polls nothing, sleeps the whole floor and samples the marker; it ends either
\* by an error of the pool lookup (nothing reported) or of the notification call,
\* without shutting down, or normally, having reported 0 jobs, and then it has shut
\* down exactly if the marker was absent at the sample.
C20_EmptyRunShutsDownIfAbsentAndNoError ==
    QueryReturnedEmpty =>
        /\ EmptyRunUpToSample
        /\ Ended => sample # "none"
        /\ pc = "done" =>
              /\ discord_message # NoMessage
              /\ shutdownDone <=> sample = "absent"
        /\ pc = "crashed" =>
              /\ ~shutdownDone
              /\ crash \in {"KeyError", "RequestException"}
              /\ crash = "KeyError" <=> discord_message = NoMessage
        /\ shutdownDone => pc = "done"

\* A run over an empty list that reported 0 jobs and shut down.
C20_Witness ==
    /\ QueryReturnedEmpty
    /\ pc = "done"
    /\ discord_message.count = 0
    /\ notif.delivered
    /\ shutdownDone

====
